---- MODULE Spec2Model ----
(***************************************************************************)
(* random-port: PortPicker (src/src/lib.rs) and its bind probes            *)
(* (src/src/utils.rs).  The picker holds a configuration (range, exclude,  *)
(* protocol, host, random); pick() validates it, resolves the addresses to *)
(* probe, and searches the range sequentially (get_port) or by random      *)
(* draws (random_port).  The two external collaborators, the interface     *)
(* enumerator (NetworkInterface::show) and the socket bind primitive       *)
(* (TcpListener::bind, UdpSocket::bind), answer from the variable env,     *)
(* the state of the machine during one pick().                             *)
(***************************************************************************)
EXTENDS Integers, Sequences, FiniteSets, TLC

(* ------------------------------ constants ------------------------------ *)

MIN_PORT == 1024
MAX_PORT == 65535

\* Width of the window of ports, starting at MIN_PORT, that the setters'
\* inputs and the environment's faults are drawn from.
MaxSpan == 2

Window == MIN_PORT..(MIN_PORT + MaxSpan - 1)

\* enum Protocol
Protocols == {"All", "Tcp", "Udp"}

\* std::net::IpAddr values: <<family, octets or segments>>.
V4Unspecified == <<4, <<0, 0, 0, 0>>>>
V6Unspecified == <<6, <<0, 0, 0, 0, 0, 0, 0, 0>>>>
V4Loopback == <<4, <<127, 0, 0, 1>>>>
V6Loopback == <<6, <<0, 0, 0, 0, 0, 0, 0, 1>>>>

IpAddrs == {V4Unspecified, V6Unspecified, V4Loopback, V6Loopback}

\* Option<String>: None is <<>>, Some(s) is <<s>>.
None == <<>>
Some(s) == <<s>>

\* The strings handed to host().
HostStrings == {"127.0.0.1", "::1", "not-an-ip"}

\* host.parse::<IpAddr>() on the strings above.
ParseIpAddr(s) ==
    CASE s = "127.0.0.1" -> [ok |-> TRUE, ip |-> V4Loopback]
      [] s = "::1" -> [ok |-> TRUE, ip |-> V6Loopback]
      [] OTHER -> [ok |-> FALSE, ip |-> V4Unspecified]

\* Result<u16, Errors>, and the value before pick() has returned.
NoResult == [kind |-> "none", port |-> 0, msg |-> <<>>]
Ok(p) == [kind |-> "Ok", port |-> p, msg |-> <<>>]
InvalidOption(m) == [kind |-> "InvalidOption", port |-> 0, msg |-> m]
NoAvailablePort == [kind |-> "NoAvailablePort", port |-> 0, msg |-> <<>>]

\* The three messages pick() formats.
MsgStartEnd == <<"The start port must be less than or equal to the end port">>
MsgBounds == <<"The port range must be between {} and {}", MIN_PORT, MAX_PORT>>
MsgHost(h) == <<"The host {} is not a valid IP address", h>>

(* ----------------------------- environment ----------------------------- *)

\* io::ErrorKind values a bind can fail with, and "Ok" for a bind that succeeds.
ErrorKinds == {"AddrInUse", "PermissionDenied", "AddrNotAvailable", "InvalidInput"}
Transports == {"Tcp", "Udp"}

\* NetworkInterface::show(): Ok(list of interfaces, each with its addr list)
\* or Err.
ShowChoices ==
    { [ok |-> TRUE, ifs |-> <<>>],
      [ok |-> TRUE, ifs |-> << [name |-> "lo", addr |-> <<V4Loopback, V6Loopback>>] >>],
      [ok |-> FALSE, ifs |-> <<>>] }

\* What binds fail: every bind of an address of addrs, a port of ports and a
\* transport of trs fails with kind; every other bind succeeds.
NoFault == [addrs |-> {}, ports |-> {}, trs |-> {}, kind |-> "AddrInUse"]
FaultChoices ==
    {NoFault} \cup
    [ addrs : {{a} : a \in IpAddrs} \cup {IpAddrs},
      ports : {{p} : p \in Window} \cup {Window},
      trs : {{t} : t \in Transports} \cup {Transports},
      kind : ErrorKinds ]

EnvChoices == [show : ShowChoices, fault : FaultChoices]
NoEnv == [show |-> [ok |-> TRUE, ifs |-> <<>>], fault |-> NoFault]

(* -------------------------------- state -------------------------------- *)

VARIABLES
    range,       \* PortPicker.range: [start, end]
    exclude,     \* PortPicker.exclude
    protocol,    \* PortPicker.protocol
    host,        \* PortPicker.host
    random,      \* PortPicker.random
    pc,          \* "idle" | "search" (inside get_port / random_port) | "done" | "panicked"
    env,         \* the machine during the current pick(): env.show, env.fault
    ip_addrs,    \* pick()'s local ip_addrs
    candidates,  \* the value of `port` in each loop iteration so far
    probed,      \* the is_free_in_hosts calls made so far: [port, free]
    enumQueried, \* get_local_hosts() was called by the current pick()
    result       \* what pick() returned

cfg == <<range, exclude, protocol, host, random>>
call == <<pc, env, ip_addrs, candidates, probed, enumQueried, result>>
vars == <<range, exclude, protocol, host, random,
          pc, env, ip_addrs, candidates, probed, enumQueried, result>>

\* RangeInclusive::is_empty, RangeInclusive::len
RangeIsEmpty(r) == r.start > r.end
RangeLen(r) == IF RangeIsEmpty(r) THEN 0 ELSE r.end - r.start + 1


(* -------------------- utils.rs: addresses and probes -------------------- *)

\* The addresses of a list of interfaces: the two nested loops of
\* get_local_hosts.
RECURSIVE AddrsOf(_)
AddrsOf(ifs) ==
    IF ifs = <<>> THEN {}
    ELSE {Head(ifs).addr[i] : i \in 1..Len(Head(ifs).addr)} \cup AddrsOf(Tail(ifs))

GetLocalHostsNoUnspecified(ifs) == AddrsOf(ifs)

\* get_local_hosts, given the list NetworkInterface::show() unwrapped to.
GetLocalHosts(ifs) == {V4Unspecified, V6Unspecified} \cup AddrsOf(ifs)

\* The socket bind primitive: "Ok" or the error kind.
Bind(a, p, t) ==
    IF a \in env.fault.addrs /\ p \in env.fault.ports /\ t \in env.fault.trs
    THEN env.fault.kind
    ELSE "Ok"

IsFreeTcpStrict(port, h) == Bind(h, port, "Tcp") = "Ok"

\* is_free_tcp
IsFreeTcp(port, h) ==
    LET r == Bind(h, port, "Tcp")
    IN  IF r = "Ok" THEN TRUE
        ELSE IF r = "AddrNotAvailable" \/ r = "InvalidInput" THEN TRUE
        ELSE FALSE

IsFreeUdpStrict(port, h) == Bind(h, port, "Udp") = "Ok"

\* is_free_udp
IsFreeUdp(port, h) ==
    LET r == Bind(h, port, "Udp")
    IN  IF r = "Ok" THEN TRUE
        ELSE IF r = "AddrNotAvailable" \/ r = "InvalidInput" THEN TRUE
        ELSE FALSE

IsFreeTcpOnly(port, h, proto) ==
    CASE proto = "Tcp" -> IsFreeTcp(port, h)
      [] proto = "Udp" -> IsFreeUdp(port, h)
      [] proto = "All" -> IsFreeTcp(port, h)

\* is_free
IsFree(port, h, proto) ==
    CASE proto = "Tcp" -> IsFreeTcp(port, h)
      [] proto = "Udp" -> IsFreeUdp(port, h)
      [] proto = "All" -> IsFreeTcp(port, h) /\ IsFreeUdp(port, h)

IsFreeInSomeHost(port, hosts, proto) == \E h \in hosts : IsFree(port, h, proto)

\* is_free_in_hosts: the loop over hosts, returning false at the first host
\* that is not free.  The HashSet's iteration order is unspecified; the value
\* returned is the same in every order, so one order (CHOOSE's) is followed.
RECURSIVE IsFreeInHosts(_, _, _)
IsFreeInHosts(port, hosts, proto) ==
    IF hosts = {} THEN TRUE
    ELSE LET h == CHOOSE x \in hosts : TRUE
         IN  IF ~IsFree(port, h, proto) THEN FALSE
             ELSE IsFreeInHosts(port, hosts \ {h}, proto)

(* ------------------------- lib.rs: the setters ------------------------- *)

\* The inputs of the setters.
PortChoices == (MIN_PORT - 2)..(MIN_PORT + MaxSpan - 1)
RangeChoices == [start : PortChoices, end : PortChoices]
ExcludePorts == {MIN_PORT, MIN_PORT + 1}

\* A setter consumes the picker and returns it changed; what an earlier
\* pick() returned is no longer about this configuration.
Forget ==
    /\ pc' = "idle"
    /\ env' = NoEnv
    /\ ip_addrs' = {}
    /\ candidates' = <<>>
    /\ probed' = <<>>
    /\ enumQueried' = FALSE
    /\ result' = NoResult

Idle == pc = "idle"

\* The caller is done with what pick() returned and keeps the picker.
Drop ==
    /\ pc = "done"
    /\ UNCHANGED <<range, exclude, protocol, host, random>>
    /\ Forget

\* port_range
PortRange(r) ==
    /\ Idle
    /\ range' = r
    /\ UNCHANGED <<exclude, protocol, host, random>>
    /\ Forget

\* execlude
Execlude(s) ==
    /\ Idle
    /\ exclude' = s
    /\ UNCHANGED <<range, protocol, host, random>>
    /\ Forget

\* execlude_add
ExecludeAdd(p) ==
    /\ Idle
    /\ exclude' = exclude \cup {p}
    /\ UNCHANGED <<range, protocol, host, random>>
    /\ Forget

\* protocol
SetProtocol(p) ==
    /\ Idle
    /\ protocol' = p
    /\ UNCHANGED <<range, exclude, host, random>>
    /\ Forget

\* host
SetHost(h) ==
    /\ Idle
    /\ host' = Some(h)
    /\ UNCHANGED <<range, exclude, protocol, random>>
    /\ Forget

\* random
SetRandom(b) ==
    /\ Idle
    /\ random' = b
    /\ UNCHANGED <<range, exclude, protocol, host>>
    /\ Forget


(* --------------------------- lib.rs: pick() --------------------------- *)

\* The receiver of pick, get_port and random_port is &self: no field changes.
SelfGainsExclusions ==
    /\ exclude' = exclude \cup {candidates'[i] : i \in 1..Len(candidates')}
    /\ UNCHANGED <<range, protocol, host, random>>

SelfUnchanged == UNCHANGED <<range, exclude, protocol, host, random>>

CheckParamsBoundsFirst(r) ==
    IF r.start < MIN_PORT \/ r.end > MAX_PORT THEN Some(MsgBounds)
    ELSE IF RangeIsEmpty(r) THEN Some(MsgStartEnd)
    ELSE None

\* The two range checks that open pick(): Some(message) of the first one
\* that fails, None when both pass.
CheckParams(r) ==
    IF RangeIsEmpty(r) THEN Some(MsgStartEnd)
    ELSE IF r.start < MIN_PORT \/ r.end > MAX_PORT THEN Some(MsgBounds)
    ELSE None

\* pick() returning Err(InvalidOption(m)) from its checks.
Reject(m) ==
    /\ pc' = "done"
    /\ result' = InvalidOption(m)
    /\ env' = NoEnv
    /\ ip_addrs' = {}
    /\ enumQueried' = FALSE

\* A random search draws from the whole range at every step; the model
\* follows it on ranges of at most MaxSpan ports.
Pickable == ~random \/ RangeLen(range) <= MaxSpan

\* The machine pick() runs on: any, or, when pick() is called again right
\* after it returned, the machine as the call before found it.
Machines == IF pc = "done" /\ env # NoEnv THEN {env} ELSE EnvChoices

\* pick(), up to the call of get_port or random_port.
Pick ==
    /\ pc \in {"idle", "done"}
    /\ Pickable
    /\ candidates' = <<>>
    /\ probed' = <<>>
    /\ IF CheckParams(range) # None THEN Reject(CheckParams(range)[1])
       ELSE IF host # None
       THEN LET parsed == ParseIpAddr(host[1])
            IN  IF parsed.ok
                THEN /\ \E e \in Machines :
                          /\ e.show = NoEnv.show   \* the enumerator is not asked
                          /\ env' = e
                     /\ ip_addrs' = {parsed.ip}
                     /\ enumQueried' = FALSE
                     /\ pc' = "search"
                     /\ result' = NoResult
                ELSE Reject(MsgHost(host[1]))
       ELSE \E e \in Machines :
                /\ env' = e
                /\ enumQueried' = TRUE
                /\ result' = NoResult
                /\ IF e.show.ok
                   THEN ip_addrs' = GetLocalHosts(e.show.ifs) /\ pc' = "search"
                   ELSE ip_addrs' = {} /\ pc' = "panicked"   \* show().unwrap()
    /\ SelfUnchanged

ExcludedNever(port) == FALSE

\* self.exclude.contains(&port)
Excluded(port) == port \in exclude

\* The loop goes on, or ends and Err(NoAvailablePort) is returned.
Continue(last) ==
    IF last
    THEN pc' = "done" /\ result' = NoAvailablePort
    ELSE pc' = "search" /\ result' = result

\* One iteration of the loop of get_port or random_port on `port`; last: the
\* loop has no further iteration.
Body(port, last) ==
    /\ candidates' = Append(candidates, port)
    /\ IF Excluded(port)
       THEN probed' = probed /\ Continue(last)
       ELSE LET free == IsFreeInHosts(port, ip_addrs, protocol)
            IN  /\ probed' = Append(probed, [port |-> port, free |-> free])
                /\ IF free
                   THEN pc' = "done" /\ result' = Ok(port)
                   ELSE Continue(last)
    /\ UNCHANGED <<env, ip_addrs, enumQueried>>
    /\ SelfUnchanged

\* get_port: the next port of self.range.clone()
GetPort ==
    /\ pc = "search"
    /\ ~random
    /\ LET port == range.start + Len(candidates)
       IN  Body(port, port = range.end)

AttemptBudgetPlusOne(r) == RangeLen(r) + 1

\* random_port: let len = self.range.len()
AttemptBudget(r) == RangeLen(r)

GenRangeUndrawn(r) == (r.start..r.end) \ {candidates[i] : i \in 1..Len(candidates)}

\* random_port: rng.gen_range(start..=end) can return any port of the range
GenRange(r) == r.start..r.end

\* random_port: one draw
RandomPort ==
    /\ pc = "search"
    /\ random
    /\ \E port \in GenRange(range) :
           Body(port, Len(candidates) + 1 >= AttemptBudget(range))

(* ----------------------------- specification ----------------------------- *)

\* PortPicker::new()
Init ==
    /\ range = [start |-> MIN_PORT, end |-> MAX_PORT]
    /\ exclude = {}
    /\ protocol = "All"
    /\ host = None
    /\ random = FALSE
    /\ pc = "idle"
    /\ env = NoEnv
    /\ ip_addrs = {}
    /\ candidates = <<>>
    /\ probed = <<>>
    /\ enumQueried = FALSE
    /\ result = NoResult

Next ==
    \/ \E r \in RangeChoices : PortRange(r)
    \/ \E s \in SUBSET ExcludePorts : Execlude(s)
    \/ \E p \in ExcludePorts : ExecludeAdd(p)
    \/ \E p \in Protocols : SetProtocol(p)
    \/ \E h \in HostStrings : SetHost(h)
    \/ \E b \in BOOLEAN : SetRandom(b)
    \/ Drop
    \/ Pick
    \/ GetPort
    \/ RandomPort

Spec == Init /\ [][Next]_vars

TypeOK ==
    /\ range.start \in 0..MAX_PORT /\ range.end \in 0..MAX_PORT
    /\ exclude \subseteq 0..MAX_PORT
    /\ protocol \in Protocols
    /\ pc \in {"idle", "search", "done", "panicked"}
    /\ result.kind \in {"none", "Ok", "InvalidOption", "NoAvailablePort"}


(* ------------------------------ properties ------------------------------ *)

\* The configuration passes the three checks of pick().
ValidConfig ==
    /\ range.start <= range.end
    /\ range.start >= MIN_PORT
    /\ range.end <= MAX_PORT
    /\ (host = None \/ ParseIpAddr(host[1]).ok)

\* The outcomes of a bind that count as free.
FreeOutcomes == {"Ok", "AddrNotAvailable", "InvalidInput"}

\* Port p counts as free on address a for the configured protocol.
FreeOn(a, p) ==
    /\ protocol \in {"Tcp", "All"} => Bind(a, p, "Tcp") \in FreeOutcomes
    /\ protocol \in {"Udp", "All"} => Bind(a, p, "Udp") \in FreeOutcomes

\* Port p is not excluded and counts as free on every resolved address.
Qualifies(p) == p \notin exclude /\ \A a \in ip_addrs : FreeOn(a, p)

Drawn == {candidates[i] : i \in 1..Len(candidates)}
Returned == pc = "done" /\ result.kind = "Ok"
Exhausted == pc = "done" /\ result.kind = "NoAvailablePort"

\* C1: a pick() on a valid configuration returns Ok(p) with p in the range
\* and not excluded, or NoAvailablePort; never InvalidOption, never a port
\* outside the range, never an excluded port.
PickContract ==
    /\ (pc = "done" /\ ValidConfig) =>
          \/ result.kind = "NoAvailablePort"
          \/ /\ result.kind = "Ok"
             /\ range.start <= result.port
             /\ result.port <= range.end
             /\ result.port \notin exclude
    /\ result.kind = "Ok" =>
          /\ range.start <= result.port
          /\ result.port <= range.end
          /\ result.port \notin exclude

\* C1 witness: a random pick returned a port although a port of the range
\* was excluded.
PickContractWitness ==
    /\ Returned
    /\ random
    /\ \E q \in exclude : range.start <= q /\ q <= range.end

\* C2 as stated: under protocol All, every TCP and every UDP bind of the
\* returned port on a resolved address succeeds.
ReturnedPortBinds ==
    (Returned /\ protocol = "All") =>
        \A a \in ip_addrs :
            Bind(a, result.port, "Tcp") = "Ok" /\ Bind(a, result.port, "Udp") = "Ok"

\* C2 amended: under protocol All, every TCP and every UDP bind of the
\* returned port on a resolved address succeeds or fails with
\* AddrNotAvailable or InvalidInput.
ReturnedPortBindsOrUnusable ==
    (Returned /\ protocol = "All") =>
        \A a \in ip_addrs :
            /\ Bind(a, result.port, "Tcp") \in {"Ok", "AddrNotAvailable", "InvalidInput"}
            /\ Bind(a, result.port, "Udp") \in {"Ok", "AddrNotAvailable", "InvalidInput"}

\* C2 witness: a port was returned under All while a bind of it on a
\* resolved address fails with AddrNotAvailable.
ReturnedPortUnusableWitness ==
    /\ Returned
    /\ protocol = "All"
    /\ \E a \in ip_addrs : Bind(a, result.port, "Udp") = "AddrNotAvailable"

\* The message of the first check that fails, <<>> when none does.
FirstFailure ==
    IF range.start > range.end THEN MsgStartEnd
    ELSE IF range.start < MIN_PORT \/ range.end > MAX_PORT THEN MsgBounds
    ELSE IF host # None /\ ~ParseIpAddr(host[1]).ok THEN MsgHost(host[1])
    ELSE <<>>

\* C3: the checks run in the order range non-empty, range within bounds,
\* host parses; pick() returns InvalidOption with the message of the first
\* that fails, without querying the enumerator and without any probe, and
\* never once the search has started.
ValidationFirst ==
    /\ (pc = "done" /\ ~ValidConfig) => result = InvalidOption(FirstFailure)
    /\ result.kind = "InvalidOption" =>
          /\ pc = "done"
          /\ ~ValidConfig
          /\ ~enumQueried
          /\ ip_addrs = {}
          /\ candidates = <<>>
          /\ probed = <<>>
    /\ pc \in {"search", "panicked"} => ValidConfig

\* C3 witness: an inverted range that is also below the bounds, with an
\* invalid host, reported with the start-<=-end message.
ValidationFirstWitness ==
    /\ pc = "done"
    /\ range.start > range.end
    /\ range.start < MIN_PORT
    /\ host = Some("not-an-ip")
    /\ result = InvalidOption(MsgStartEnd)

\* C4: a sequential pick returns the smallest qualifying port of the range,
\* NoAvailablePort iff the range has none; it probes no excluded port and no
\* port above the returned one.
SequentialFirstFit ==
    (pc = "done" /\ ~random /\ ValidConfig) =>
        /\ result.kind = "Ok" =>
              /\ Qualifies(result.port)
              /\ \A q \in range.start..(result.port - 1) : ~Qualifies(q)
        /\ result.kind = "NoAvailablePort" <=>
              ~(\E q \in range.start..range.end : Qualifies(q))
        /\ \A i \in 1..Len(probed) :
              /\ probed[i].port \notin exclude
              /\ result.kind = "Ok" => probed[i].port <= result.port

\* C4 witness: a sequential pick returned a port after skipping an excluded
\* port and a port it found occupied.
SequentialFirstFitWitness ==
    /\ Returned
    /\ ~random
    /\ \E q \in exclude : range.start <= q /\ q < result.port
    /\ \E i \in 1..Len(probed) : ~probed[i].free

\* C5: a random pick makes at most N = end - start + 1 draws; a draw of an
\* excluded port counts and is not probed; the first qualifying draw is
\* returned at once; N draws without one give NoAvailablePort.
RandomBounded ==
    (random /\ pc \in {"search", "done"} /\ ValidConfig) =>
        LET n == range.end - range.start + 1
        IN  /\ Len(candidates) <= n
            /\ pc = "search" => Len(candidates) < n
            /\ Len(probed) = Cardinality({i \in 1..Len(candidates) : candidates[i] \notin exclude})
            /\ \A i \in 1..Len(probed) : probed[i].port \notin exclude
            /\ \A i \in 1..(Len(candidates) - 1) : ~Qualifies(candidates[i])
            /\ pc = "search" => \A i \in 1..Len(candidates) : ~Qualifies(candidates[i])
            /\ pc = "done" =>
                  /\ Len(candidates) >= 1
                  /\ IF Qualifies(candidates[Len(candidates)])
                     THEN result = Ok(candidates[Len(candidates)])
                     ELSE Len(candidates) = n /\ result = NoAvailablePort

\* C5 witness: the whole range is excluded; N draws, no probe,
\* NoAvailablePort.
RandomBoundedWitness ==
    /\ Exhausted
    /\ random
    /\ range.end > range.start
    /\ \A q \in range.start..range.end : q \in exclude
    /\ Len(candidates) = range.end - range.start + 1
    /\ probed = <<>>

\* C6 as stated: no port is drawn twice in one random pick.
NoPortDrawnTwice ==
    random => \A i, j \in 1..Len(candidates) : i # j => candidates[i] # candidates[j]

\* C6 amended: the draws are made with replacement: every draw of a random
\* pick is a port of the range, and whatever was drawn before, the next draw
\* can be any port of the range.
DrawsWithReplacement ==
    (random /\ pc \in {"search", "done"}) =>
        /\ \A i \in 1..Len(candidates) :
              range.start <= candidates[i] /\ candidates[i] <= range.end
        /\ pc = "search" =>
              \A p \in range.start..range.end :
                  ENABLED (RandomPort /\ candidates' = Append(candidates, p))

\* C6 witness: a random pick drew the same port twice.
DrawsWithReplacementWitness ==
    /\ random
    /\ \E i, j \in 1..Len(candidates) : i # j /\ candidates[i] = candidates[j]

\* C7: no step of pick() changes a field of the picker, and a pick() starts
\* with no candidate and no probe of an earlier pick().
ConfigFrame ==
    [][ (pc = "search" \/ pc' \in {"search", "done", "panicked"}) =>
            /\ range' = range
            /\ exclude' = exclude
            /\ protocol' = protocol
            /\ host' = host
            /\ random' = random
            /\ pc # "search" => candidates' = <<>> /\ probed' = <<>> ]_vars

\* C7 witness: a random pick with exclusions and a host has searched and
\* returned.
ConfigFrameWitness ==
    /\ pc = "done"
    /\ random
    /\ exclude # {}
    /\ host # None
    /\ Len(candidates) > 1

\* C8: with a host that parses, the resolved set is that one address and the
\* enumerator is not queried; with no host, it is the addresses of every
\* interface together with 0.0.0.0 and ::, so never empty.
ResolvedAddresses ==
    (pc \in {"search", "done"} /\ ValidConfig) =>
        /\ host # None =>
              /\ ~enumQueried
              /\ Cardinality(ip_addrs) = 1
              /\ host = Some("127.0.0.1") => ip_addrs = {<<4, <<127, 0, 0, 1>>>>}
              /\ host = Some("::1") => ip_addrs = {<<6, <<0, 0, 0, 0, 0, 0, 0, 1>>>>}
        /\ host = None =>
              /\ enumQueried
              /\ ip_addrs # {}
              /\ <<4, <<0, 0, 0, 0>>>> \in ip_addrs
              /\ <<6, <<0, 0, 0, 0, 0, 0, 0, 0>>>> \in ip_addrs
              /\ \A i \in 1..Len(env.show.ifs) :
                    \A j \in 1..Len(env.show.ifs[i].addr) :
                        env.show.ifs[i].addr[j] \in ip_addrs
              /\ \A a \in ip_addrs :
                    \/ a = <<4, <<0, 0, 0, 0>>>>
                    \/ a = <<6, <<0, 0, 0, 0, 0, 0, 0, 0>>>>
                    \/ \E i \in 1..Len(env.show.ifs) :
                          \E j \in 1..Len(env.show.ifs[i].addr) :
                              env.show.ifs[i].addr[j] = a

\* C8 witness: no host, and the enumerator reported no interface: the
\* resolved set is the two unspecified addresses.
ResolvedAddressesWitness ==
    /\ pc = "search"
    /\ host = None
    /\ env.show.ifs = <<>>
    /\ Cardinality(ip_addrs) = 2

\* C9: every bindability check made reported free iff, on every resolved
\* address, each bind the protocol asks for (Tcp: TCP, Udp: UDP, All: both)
\* succeeded or failed with AddrNotAvailable or InvalidInput.
BindClassification ==
    pc \in {"search", "done"} =>
        \A i \in 1..Len(probed) :
            probed[i].free <=>
                \A a \in ip_addrs :
                    /\ protocol \in {"Tcp", "All"} =>
                          Bind(a, probed[i].port, "Tcp") \in {"Ok", "AddrNotAvailable", "InvalidInput"}
                    /\ protocol \in {"Udp", "All"} =>
                          Bind(a, probed[i].port, "Udp") \in {"Ok", "AddrNotAvailable", "InvalidInput"}

\* C9 witness: under All, a port was reported free although its TCP bind on
\* a resolved address failed with InvalidInput.
BindClassificationWitness ==
    /\ protocol = "All"
    /\ \E i \in 1..Len(probed) :
          /\ probed[i].free
          /\ \E a \in ip_addrs : Bind(a, probed[i].port, "Tcp") = "InvalidInput"

\* C10: NoAvailablePort from a random pick says that N draws were made and
\* none of the ports drawn qualifies, not that no port of the range does;
\* from a sequential pick it says that no port of the range qualifies.
RandomNotExhaustive ==
    (Exhausted /\ ValidConfig) =>
        IF random
        THEN /\ Len(candidates) = range.end - range.start + 1
             /\ \A q \in Drawn : ~Qualifies(q)
        ELSE \A q \in range.start..range.end : ~Qualifies(q)

\* C10 witness: a random pick returned NoAvailablePort while a port of the
\* range qualifies.
RandomNotExhaustiveWitness ==
    /\ Exhausted
    /\ random
    /\ \E q \in range.start..range.end : Qualifies(q)

====
